---- MODULE Spec2Model ----
(***************************************************************************)
(* Model of createIssues (src/src/index.ts): the pipeline that reads epic  *)
(* and story markdown files, resolves labels, creates one issue per epic   *)
(* and then one issue per story in the order of the priority manifest.     *)
(*                                                                         *)
(* The function is async: every tracker call is awaited.  One action of    *)
(* the model is one resumption of the function: the awaited call returns   *)
(* (or throws) and the synchronous code up to and including the next       *)
(* tracker call runs.  main (src/src/cli.ts) wraps the run: it loads the   *)
(* configuration, awaits createIssues and sets the exit code.              *)
(*                                                                         *)
(* File names are sequences of one-character strings, so that the regular  *)
(* expression of line 58 and the split of line 122 are computed character  *)
(* by character.  Frontmatter values, labels and identifiers are strings;  *)
(* UNDEF stands for JavaScript's undefined.                                *)
(***************************************************************************)
EXTENDS Integers, Sequences, FiniteSets, TLC

\* ------------------------------------------------------------------ bounds
MaxEpicFiles == 2
MaxStoryFiles == 2
MaxManifest == 2

\* ------------------------------------------------------------ JS values
UNDEF == "<undefined>"
\* a failed match / a missing array element, among character sequences
UndefSeq == <<"<undefined>">>
\* String(undefined), as template literals and property keys render it
UndefinedChars == <<"u", "n", "d", "e", "f", "i", "n", "e", "d">>
Falsy(v) == v = UNDEF \/ v = ""
\* `${v}` for a string value
Tmpl(v) == IF v = UNDEF THEN "undefined" ELSE v
\* `${v}` / property key for a character sequence
ToChars(v) == IF v = UndefSeq THEN UndefinedChars ELSE v

Digits == {"0", "1", "2", "3", "4", "5", "6", "7", "8", "9"}
DigitValue(c) == CASE c = "0" -> 0 [] c = "1" -> 1 [] c = "2" -> 2 [] c = "3" -> 3
                   [] c = "4" -> 4 [] c = "5" -> 5 [] c = "6" -> 6 [] c = "7" -> 7
                   [] c = "8" -> 8 [] c = "9" -> 9

\* file.endsWith(".md")
EndsWithMd(file) ==
    /\ Len(file) >= 3
    /\ SubSeq(file, Len(file) - 2, Len(file)) = <<".", "m", "d">>

\* length of the leading run of digits of s
RECURSIVE DigitRun(_, _)
DigitRun(s, i) ==
    IF i <= Len(s) /\ s[i] \in Digits THEN DigitRun(s, i + 1) ELSE i - 1

\* file.match(/^(\d+)-/)?.[1]: the leading digit run when a "-" follows it
MatchEpicNumber(file) ==
    LET n == DigitRun(file, 1)
    IN  IF n >= 1 /\ n < Len(file) /\ file[n + 1] = "-"
        THEN SubSeq(file, 1, n)
        ELSE UndefSeq

\* file.split("-"): the segments between the separators (at least one)
RECURSIVE Split(_, _)
Split(s, cur) ==
    IF s = <<>> THEN <<cur>>
    ELSE IF Head(s) = "-" THEN <<cur>> \o Split(Tail(s), <<>>)
    ELSE Split(Tail(s), Append(cur, Head(s)))

\* const [epicNumber, storyNumber] = file.split("-").slice(0, 2)
SplitEpicNumber(file) == Split(file, <<>>)[1]
SplitStoryNumber(file) ==
    LET segs == Split(file, <<>>)
    IN  IF Len(segs) >= 2 THEN segs[2] ELSE UndefSeq

\* `${epicNumber}-${storyNumber}`
StoryIdOf(file) ==
    ToChars(SplitEpicNumber(file)) \o <<"-">> \o ToChars(SplitStoryNumber(file))

\* priorityOrder.indexOf(storyId): first position, 0-based, or -1
RECURSIVE IndexFrom(_, _, _)
IndexFrom(seq, x, i) ==
    IF i > Len(seq) THEN -1
    ELSE IF seq[i] = x THEN i - 1
    ELSE IndexFrom(seq, x, i + 1)
IndexOfOrLast(seq, x) ==
    IF IndexFrom(seq, x, 1) = -1 THEN Len(seq) ELSE IndexFrom(seq, x, 1)
IndexOfFound(seq, x) == IF IndexFrom(seq, x, 1) = -1 THEN -1 ELSE 0
IndexOf(seq, x) == IndexFrom(seq, x, 1)

Range(seq) == {seq[i] : i \in 1..Len(seq)}


\* ------------------------------------------------- the `epics` object
\* `epics` is a plain object: a sequence of own entries [key, fm, issueId] in
\* insertion order.  An assignment to an existing key keeps the key's position.
HasOwn(obj, key) == \E i \in 1..Len(obj) : obj[i].key = key
ObjSet(obj, key, fm) ==
    LET entry == [key |-> key, fm |-> fm, issueId |-> ""]
    IN  IF HasOwn(obj, key)
        THEN [i \in 1..Len(obj) |-> IF obj[i].key = key THEN entry ELSE obj[i]]
        ELSE Append(obj, entry)

\* numeric value of a digit sequence
RECURSIVE NumValue(_)
NumValue(s) ==
    IF s = <<>> THEN 0 ELSE 10 * NumValue(SubSeq(s, 1, Len(s) - 1)) + DigitValue(s[Len(s)])

\* a property key that is a canonical array index ("2", not "01"); the digit
\* runs of the model's file names are far below the 2^32 - 2 limit
IsArrayIndex(key) ==
    /\ Len(key) >= 1
    /\ Len(key) <= 9
    /\ \A i \in 1..Len(key) : key[i] \in Digits
    /\ (Len(key) = 1 \/ key[1] # "0")

\* stable insertion of entry e into a sequence ordered by NumValue(key)
RECURSIVE InsertByIndex(_, _)
InsertByIndex(sorted, e) ==
    IF sorted = <<>> THEN <<e>>
    ELSE IF NumValue(e.key) < NumValue(Head(sorted).key) THEN <<e>> \o sorted
    ELSE <<Head(sorted)>> \o InsertByIndex(Tail(sorted), e)

RECURSIVE SortByIndex(_)
SortByIndex(seq) ==
    IF seq = <<>> THEN <<>>
    ELSE InsertByIndex(SortByIndex(SubSeq(seq, 1, Len(seq) - 1)), seq[Len(seq)])

\* Object.values(epics): array-index keys in ascending numeric order, then the
\* other keys in insertion order
ObjectValues(obj) ==
    SortByIndex(SelectSeq(obj, LAMBDA e : IsArrayIndex(e.key)))
        \o SelectSeq(obj, LAMBDA e : ~IsArrayIndex(e.key))

\* properties every plain object inherits from Object.prototype
Constructor == <<"c", "o", "n", "s", "t", "r", "u", "c", "t", "o", "r">>
ToStringKey == <<"t", "o", "S", "t", "r", "i", "n", "g">>
ObjectPrototypeKeys == {Constructor, ToStringKey}

\* epics[epicNumber].issueId: the own entry's issueId; undefined when the key
\* is inherited from Object.prototype; a TypeError when epics[epicNumber] is
\* undefined
EpicIssueId(obj, epicNumber) ==
    LET key == ToChars(epicNumber)
    IN  IF HasOwn(obj, key)
        THEN [throws |-> FALSE,
              value |-> (CHOOSE e \in Range(obj) : e.key = key).issueId]
        ELSE IF key \in ObjectPrototypeKeys
        THEN [throws |-> FALSE, value |-> UNDEF]
        ELSE [throws |-> TRUE, value |-> UNDEF]

\* --------------------------------------------------------- labelsByName
\* a Map: a sequence of [name, id] in insertion order; set replaces the value
\* of an existing key
MapHas(m, name) == \E i \in 1..Len(m) : m[i].name = name
MapGet(m, name) ==
    IF MapHas(m, name) THEN (CHOOSE e \in Range(m) : e.name = name).id ELSE UNDEF
MapSet(m, name, id) ==
    IF MapHas(m, name)
    THEN [i \in 1..Len(m) |-> IF m[i].name = name THEN [name |-> name, id |-> id] ELSE m[i]]
    ELSE Append(m, [name |-> name, id |-> id])

\* [...new Set(list)]: first occurrences, in order
RECURSIVE Dedup(_)
Dedup(list) ==
    IF list = <<>> THEN <<>>
    ELSE LET init == Dedup(SubSeq(list, 1, Len(list) - 1))
             last == list[Len(list)]
         IN  IF last \in Range(init) THEN init ELSE Append(init, last)

ReservedLabel == "Epic"

LabelsOfWithRepeats(obj) ==
    [i \in 1..Len(ObjectValues(obj)) |-> ObjectValues(obj)[i].fm.label]
        \o <<ReservedLabel>>
\* line 70: the labels to resolve
LabelsOf(obj) ==
    Dedup([i \in 1..Len(ObjectValues(obj)) |-> ObjectValues(obj)[i].fm.label]
            \o <<ReservedLabel>>)


\* ------------------------------------------------------ story records
\* line 133: the story's title
StoryTitle(fm) ==
    IF ~Falsy(fm.role)
    THEN "As a " \o fm.role \o ", I want to " \o Tmpl(fm.action)
    ELSE fm.title

\* lines 105-107: the epic's body
EpicBody(fm) ==
    IF ~Falsy(fm.role)
    THEN "As a " \o fm.role \o ", I want to " \o Tmpl(fm.action)
            \o " so that " \o Tmpl(fm.benefit) \o "."
    ELSE ""

\* lines 156-157: the story's body
StoryBody(fm, description) ==
    (IF ~Falsy(fm.role)
     THEN "As a " \o fm.role \o ", I want to " \o Tmpl(fm.action)
            \o " so that " \o Tmpl(fm.benefit) \o ".\n\n"
     ELSE "") \o description

\* line 145: the label id a story record carries
StoryLabelId(m, storyFm) == MapGet(m, storyFm.label)

\* line 135: if (!title)
TitleOnlyUndefinedMissing(title) == title = UNDEF
TitleMissing(title) == Falsy(title)

\* lines 119-151, for one file: the record built, or the error thrown
StoryOf(file, doc, manifest, m, obj) ==
    LET epicNumber == SplitEpicNumber(file)
        storyId == StoryIdOf(file)
        priorityIndex == IndexOf(manifest, storyId)
        title == StoryTitle(doc.fm)
        parent == EpicIssueId(obj, epicNumber)
    IN  IF priorityIndex = -1
        THEN [throws |-> TRUE, error |-> "not found in priority order"]
        ELSE IF TitleMissing(title)
        THEN [throws |-> TRUE, error |-> "Title not set"]
        ELSE IF parent.throws
        THEN [throws |-> TRUE, error |-> "TypeError"]
        ELSE [throws |-> FALSE,
              story |-> [file |-> file,
                         title |-> title,
                         fm |-> doc.fm,
                         description |-> doc.description,
                         priority |-> priorityIndex + 1,
                         labelId |-> StoryLabelId(m, doc.fm),
                         issueId |-> parent.value]]

\* storyFiles.map(...): the records of all files, or the first error and the
\* number of files read when it was thrown
RECURSIVE MapStories(_, _, _, _, _, _, _)
MapStories(files, docs, manifest, m, obj, i, acc) ==
    IF i > Len(files)
    THEN [throws |-> FALSE, error |-> "", stories |-> acc, read |-> Len(files)]
    ELSE LET r == StoryOf(files[i], docs[i], manifest, m, obj)
         IN  IF r.throws
             THEN [throws |-> TRUE, error |-> r.error, stories |-> <<>>, read |-> i]
             ELSE MapStories(files, docs, manifest, m, obj, i + 1, Append(acc, r.story))

ComparePriorityDescending(a, b) == b.priority - a.priority
\* the comparator of line 153
ComparePriority(a, b) == a.priority - b.priority

\* storiesWithEpic.sort(compare): Array.prototype.sort is stable
RECURSIVE InsertStory(_, _)
InsertStory(sorted, s) ==
    IF sorted = <<>> THEN <<s>>
    ELSE IF ComparePriority(s, Head(sorted)) < 0 THEN <<s>> \o sorted
    ELSE <<Head(sorted)>> \o InsertStory(Tail(sorted), s)

RECURSIVE SortStories(_)
SortStories(seq) ==
    IF seq = <<>> THEN <<>>
    ELSE InsertStory(SortStories(SubSeq(seq, 1, Len(seq) - 1)), seq[Len(seq)])


\* ------------------------------------------------- the files of a run
\* epic files: the README's layout, two files with one leading number, a
\* name without a leading number, and a file that is no markdown
E01a == <<"0", "1", "-", "a", ".", "m", "d">>
E01b == <<"0", "1", "-", "b", ".", "m", "d">>
E2a == <<"2", "-", "a", ".", "m", "d">>
Ex == <<"x", ".", "m", "d">>
Notes == <<"a", ".", "t", "x", "t">>
EpicDirNames == {E01a, E01b, E2a, Ex, Notes}
PlainEpicNames == {E01a, E2a, Notes}

\* story files: the README's layout, two files with one story id, a name
\* whose first segment is a property of Object.prototype, one whose first
\* segment reads "undefined", and one without a separator
S01x1a == <<"0", "1", "-", "1", "-", "a", ".", "m", "d">>
S01x1b == <<"0", "1", "-", "1", "-", "b", ".", "m", "d">>
S2x1a == <<"2", "-", "1", "-", "a", ".", "m", "d">>
SCtor == Constructor \o <<"-", "1", "-", "a", ".", "m", "d">>
SUndef == UndefinedChars \o <<"-", "1", "-", "a", ".", "m", "d">>
SNoDash == <<"x", ".", "m", "d">>
StoryDirNames == {S01x1a, S01x1b, S2x1a, SCtor, SUndef, SNoDash, Notes}
PlainStoryNames == {S01x1a, S2x1a, Notes}

\* a story id no story file has
ForeignId == <<"9", "-", "9">>

\* frontmatter as the parser returns it (getMDStory, src/parse.ts)
Narrative(fm, role) ==
    [title |-> fm.title, label |-> fm.label, role |-> role,
     action |-> IF role = UNDEF THEN UNDEF ELSE "act",
     benefit |-> IF role = UNDEF THEN UNDEF ELSE "gain"]
EpicFm(title, label) == Narrative([title |-> title, label |-> label], UNDEF)
EpicFrontmatters ==
    {EpicFm("Epic title", "backend"), EpicFm("Epic title", "frontend"),
     EpicFm("Epic title", ReservedLabel), EpicFm("Epic title", UNDEF),
     EpicFm(UNDEF, "backend")}
ReadmeEpic == Narrative([title |-> "Epic title", label |-> "backend"], "user")
StoryFm(title, label, role) == Narrative([title |-> title, label |-> label], role)
StoryFrontmatters ==
    {StoryFm("Story title", "backend", UNDEF), StoryFm("Story title", "frontend", UNDEF),
     StoryFm("Story title", UNDEF, UNDEF), StoryFm(UNDEF, "backend", UNDEF),
     StoryFm("", "backend", UNDEF), StoryFm(UNDEF, "backend", "user")}
ReadmeStory == Narrative([title |-> "Story title", label |-> "backend"], "user")
Doc(fm) == [fm |-> fm, description |-> "text"]

\* directory listings: readdirSync returns the names in no particular order
Listings(names, max) ==
    {l \in UNION {[1..n -> names] : n \in 0..max} :
        \A i, j \in 1..Len(l) : i # j => l[i] # l[j]}

\* The runs range over every listing; the files' frontmatter ranges over all
\* of EpicFrontmatters and StoryFrontmatters when every name follows the
\* README's layout, and is the README's frontmatter otherwise.
PlainLayout(eFiles, sFiles) ==
    Range(eFiles) \subseteq PlainEpicNames /\ Range(sFiles) \subseteq PlainStoryNames
EpicDocs(eFiles, sFiles) ==
    [1..Len(eFiles) ->
        IF PlainLayout(eFiles, sFiles)
        THEN {Doc(fm) : fm \in EpicFrontmatters} ELSE {Doc(ReadmeEpic)}]
StoryDocs(eFiles, sFiles) ==
    [1..Len(sFiles) ->
        IF PlainLayout(eFiles, sFiles)
        THEN {Doc(fm) : fm \in StoryFrontmatters} ELSE {Doc(ReadmeStory)}]
\* priority manifests: story ids of the listed files and a foreign id
Manifests(sFiles) ==
    UNION {[1..n -> {StoryIdOf(f) : f \in Range(sFiles)} \cup {ForeignId}] :
            n \in 0..MaxManifest}


\* ---------------------------------------------------------------- state
VARIABLES
    pc,              \* the awaited call: "init", "getProjectInfo", "getRepositoryId",
                     \* "createLabelIfNotExists", "createIssue",
                     \* "createIssueAddToProject"; or "done", "failed"
    error,           \* the message of the error that ended the run, "" if none
    projectInfo,     \* line 39
    repositoryId,    \* line 43
    epicFiles,       \* line 45
    storyFiles,      \* line 46
    epics,           \* line 48
    labels,          \* line 70
    labelsByName,    \* line 71
    labelIdx,        \* position of the loop of line 72 in labels
    epicIdx,         \* position of the loop of line 91 in Object.values(epics)
    priorityOrder,   \* line 115
    storyDocs,       \* the story files read by line 120, in storyFiles' order
    storiesWithEpic, \* line 119, sorted by line 153
    storyIdx,        \* position of the loop of line 155 in storiesWithEpic
    calls,           \* the tracker calls issued, oldest first
    cli              \* main of cli.ts: whether the process has exited, its exit
                     \* code, and what it reported last

vars == <<pc, error, projectInfo, repositoryId, epicFiles, storyFiles, epics,
          labels, labelsByName, labelIdx, epicIdx, priorityOrder, storyDocs,
          storiesWithEpic, storyIdx, calls, cli>>

\* ------------------------------------------------------- tracker client
\* A call as the client receives it.  src names the file (story) or the key
\* (epic) the call is made for; status is "pending" until the call settles.
Call(op, name, title, body, parentIssueId, labelId, src) ==
    [op |-> op, name |-> name, title |-> title, body |-> body,
     parentIssueId |-> parentIssueId, labelId |-> labelId, src |-> src,
     status |-> "pending", result |-> UNDEF]
NoSrc == <<>>

\* the last call settles
Settle(log, status, result) ==
    [log EXCEPT ![Len(log)] = [@ EXCEPT !.status = status, !.result = result]]

\* identifiers the tracker hands out
LabelIdFor(name) == "label:" \o Tmpl(name)
IssueIdFor(log) ==
    "issue:" \o ToString(1 + Cardinality({i \in 1..Len(log) :
        /\ log[i].op \in {"createIssue", "createIssueAddToProject"}
        /\ log[i].status = "ok"}))

EpicCall(e, labelId) ==
    Call("createIssue", UNDEF, e.fm.title, EpicBody(e.fm), UNDEF, labelId, e.key)
StoryCall(st) ==
    Call("createIssueAddToProject", UNDEF, st.title, StoryBody(st.fm, st.description),
         st.issueId, st.labelId, st.file)

Init ==
    /\ pc = "init"
    /\ error = ""
    /\ projectInfo = UNDEF
    /\ repositoryId = UNDEF
    /\ epicFiles = <<>>
    /\ storyFiles = <<>>
    /\ epics = <<>>
    /\ labels = <<>>
    /\ labelsByName = <<>>
    /\ labelIdx = 0
    /\ epicIdx = 0
    /\ priorityOrder = <<>>
    /\ storyDocs = <<>>
    /\ storiesWithEpic = <<>>
    /\ storyIdx = 0
    /\ calls = <<>>
    /\ cli = [exited |-> FALSE, exitCode |-> 0, report |-> ""]

\* cli.ts lines 185-188: main catches the error, reports it and exits with 1
MainCatchExitsZero == cli' = [exited |-> TRUE, exitCode |-> 0, report |-> "error"]
MainCatch == cli' = [exited |-> TRUE, exitCode |-> 1, report |-> "error"]
\* cli.ts lines 181-184: createIssues resolved; main reports success and
\* returns, the process ends with its default exit code
MainReturns == cli' = [exited |-> TRUE, exitCode |-> 0, report |-> "success"]

\* an error leaves createIssues: the run ends, main catches it
ThrowThenRetry(message, log) ==
    /\ pc' = "failed"
    /\ error' = message
    /\ calls' = IF log # <<>> /\ log[Len(log)].status = "failed"
                THEN Append(log, [log[Len(log)] EXCEPT !.status = "pending"])
                ELSE log
    /\ MainCatch
Throw(message, log) ==
    /\ pc' = "failed"
    /\ error' = message
    /\ calls' = log
    /\ MainCatch

\* lines 115-171 up to the first story call: read the manifest (readFileSync
\* or JSON.parse may throw) and the story files, build and sort the records,
\* issue the first createIssueAddToProject
EnterStories(obj, m, log) ==
    \/ /\ Throw("priority file unreadable", log)
       /\ UNCHANGED <<priorityOrder, storyDocs, storiesWithEpic, storyIdx>>
    \/ \E manifest \in Manifests(storyFiles), docs \in StoryDocs(epicFiles, storyFiles) :
        LET r == MapStories(storyFiles, docs, manifest, m, obj, 1, <<>>)
            sorted == SortStories(r.stories)
        IN  /\ priorityOrder' = manifest
            /\ storyDocs' = SubSeq(docs, 1, r.read)
            /\ IF r.throws
               THEN /\ Throw(r.error, log)
                    /\ UNCHANGED <<storiesWithEpic, storyIdx>>
               ELSE /\ storiesWithEpic' = sorted
                    /\ error' = ""
                    /\ IF sorted = <<>>
                       THEN /\ pc' = "done"
                            /\ calls' = log
                            /\ MainReturns
                            /\ UNCHANGED storyIdx
                       ELSE /\ pc' = "createIssueAddToProject"
                            /\ storyIdx' = 1
                            /\ calls' = Append(log, StoryCall(sorted[1]))
                            /\ UNCHANGED cli

\* line 94: if (!labelId)
ReservedLabelNeverMissing(labelId) == FALSE
ReservedLabelMissing(labelId) == Falsy(labelId)

EpicIterationResolvesLabel(obj, m, i, log) ==
    /\ pc' = "createIssue"
    /\ error' = ""
    /\ epicIdx' = i
    /\ calls' = Append(Append(log,
            [Call("createLabelIfNotExists", ReservedLabel, UNDEF, UNDEF, UNDEF, UNDEF, NoSrc)
                EXCEPT !.status = "ok", !.result = LabelIdFor(ReservedLabel)]),
            EpicCall(ObjectValues(obj)[i], LabelIdFor(ReservedLabel)))
    /\ UNCHANGED cli
EpicIterationAllAtOnce(obj, m, i, log) ==
    /\ pc' = "createIssue"
    /\ error' = ""
    /\ epicIdx' = i
    /\ calls' = log \o [k \in 1..(Len(ObjectValues(obj)) - i + 1) |->
                            EpicCall(ObjectValues(obj)[i + k - 1], MapGet(m, ReservedLabel))]
    /\ UNCHANGED cli
\* lines 91-110, one iteration: the guard on the reserved label, then the
\* createIssue call for the epic at position i
EpicIteration(obj, m, i, log) ==
    LET labelId == MapGet(m, ReservedLabel)
    IN  IF ReservedLabelMissing(labelId)
        THEN /\ Throw("Label Epic not found", log)
             /\ UNCHANGED epicIdx
        ELSE /\ pc' = "createIssue"
             /\ error' = ""
             /\ epicIdx' = i
             /\ calls' = Append(log, EpicCall(ObjectValues(obj)[i], labelId))
             /\ UNCHANGED cli

EnterEpicsStoriesFirst(m, log) ==
    /\ EnterStories(epics, m, log)
    /\ UNCHANGED epicIdx
\* lines 91-171 from the end of label resolution
EnterEpics(m, log) ==
    IF ObjectValues(epics) = <<>>
    THEN /\ EnterStories(epics, m, log)
         /\ UNCHANGED epicIdx
    ELSE /\ EpicIteration(epics, m, 1, log)
         /\ UNCHANGED <<priorityOrder, storyDocs, storiesWithEpic, storyIdx>>

\* cli.ts lines 53-164: the configuration getConfig has gathered from the data
\* directory, the config file, the environment and the prompts; a value
\* that none of them supplied is ""
Configs ==
    [owner : {"", "o"}, repo : {"", "r"}, token : {"", "t"},
     epicsDir : {"", "e"}, storiesDir : {"", "s"}, priorityFile : {"", "p"}]
\* cli.ts line 155
GithubConfigMissing(c) == Falsy(c.owner) \/ Falsy(c.repo) \/ Falsy(c.token)
\* cli.ts line 159
DataConfigMissing(c) ==
    Falsy(c.epicsDir) \/ Falsy(c.storiesDir) \/ Falsy(c.priorityFile)

\* cli.ts lines 167-181 and index.ts lines 33-39: main loads the configuration
\* and calls createIssues, which awaits getProjectInfo
Start ==
    /\ pc = "init"
    /\ \E c \in Configs :
        IF GithubConfigMissing(c)
        THEN Throw("Missing required GitHub configuration", calls)
        ELSE IF DataConfigMissing(c)
        THEN Throw("Missing required data configuration", calls)
        ELSE /\ pc' = "getProjectInfo"
             /\ calls' = Append(calls,
                    Call("getProjectInfo", UNDEF, UNDEF, UNDEF, UNDEF, UNDEF, NoSrc))
             /\ UNCHANGED <<error, cli>>
    /\ UNCHANGED <<projectInfo, repositoryId, epicFiles, storyFiles, epics,
                   labels, labelsByName, labelIdx, epicIdx, priorityOrder,
                   storyDocs, storiesWithEpic, storyIdx>>

\* line 40: if (!projectInfo)
ProjectInfoNeverMissing(info) == FALSE
ProjectInfoMissing(info) == Falsy(info)

\* lines 39-43: getProjectInfo settles
ProjectInfoReturns ==
    /\ pc = "getProjectInfo"
    /\ \/ /\ Throw("tracker", Settle(calls, "failed", UNDEF))
          /\ UNCHANGED projectInfo
       \/ \E info \in {"project", UNDEF} :
            /\ projectInfo' = info
            /\ IF ProjectInfoMissing(info)
               THEN Throw("Could not find project information", Settle(calls, "ok", info))
               ELSE /\ pc' = "getRepositoryId"
                    /\ error' = ""
                    /\ calls' = Append(Settle(calls, "ok", info),
                            Call("getRepositoryId", UNDEF, UNDEF, UNDEF, UNDEF, UNDEF, NoSrc))
                    /\ UNCHANGED cli
    /\ UNCHANGED <<repositoryId, epicFiles, storyFiles, epics, labels, labelsByName,
                   labelIdx, epicIdx, priorityOrder, storyDocs, storiesWithEpic,
                   storyIdx>>

\* lines 54-68: the epics object built from the epic files
RECURSIVE BuildEpics(_, _, _, _)
BuildEpics(files, docs, i, obj) ==
    IF i > Len(files) THEN obj
    ELSE BuildEpics(files, docs, i + 1,
            ObjSet(obj, ToChars(MatchEpicNumber(files[i])), docs[i].fm))

\* lines 43-73: getRepositoryId settles; the directories are listed, the epics
\* object and the label list are built, the first label is requested
RepositoryIdReturns ==
    /\ pc = "getRepositoryId"
    /\ \/ /\ Throw("tracker", Settle(calls, "failed", UNDEF))
          /\ UNCHANGED <<repositoryId, epicFiles, storyFiles, epics, labels, labelIdx>>
       \/ \E eDir \in Listings(EpicDirNames, MaxEpicFiles),
             sDir \in Listings(StoryDirNames, MaxStoryFiles) :
            LET eFiles == SelectSeq(eDir, EndsWithMd)
                sFiles == SelectSeq(sDir, EndsWithMd)
            IN  \E docs \in EpicDocs(eFiles, sFiles) :
                    LET obj == BuildEpics(eFiles, docs, 1, <<>>)
                        names == LabelsOf(obj)
                    IN  /\ repositoryId' = "repository"
                        /\ epicFiles' = eFiles
                        /\ storyFiles' = sFiles
                        /\ epics' = obj
                        /\ labels' = names
                        /\ labelIdx' = 1
                        /\ pc' = "createLabelIfNotExists"
                        /\ error' = ""
                        /\ calls' = Append(Settle(calls, "ok", "repository"),
                                Call("createLabelIfNotExists", names[1], UNDEF, UNDEF,
                                     UNDEF, UNDEF, NoSrc))
                        /\ UNCHANGED cli
    /\ UNCHANGED <<projectInfo, labelsByName, epicIdx, priorityOrder, storyDocs,
                   storiesWithEpic, storyIdx>>

\* lines 72-80: createLabelIfNotExists settles; the next label is requested,
\* or the loops that follow start
LabelReturns ==
    /\ pc = "createLabelIfNotExists"
    /\ \/ /\ Throw("tracker", Settle(calls, "failed", UNDEF))
          /\ UNCHANGED <<labelsByName, labelIdx, epicIdx, priorityOrder, storyDocs,
                         storiesWithEpic, storyIdx>>
       \/ \E id \in {LabelIdFor(labels[labelIdx]), UNDEF} :
            LET log == Settle(calls, "ok", id)
                m == MapSet(labelsByName, labels[labelIdx], id)
            IN  /\ labelsByName' = m
                /\ IF labelIdx < Len(labels)
                   THEN /\ labelIdx' = labelIdx + 1
                        /\ pc' = "createLabelIfNotExists"
                        /\ error' = ""
                        /\ calls' = Append(log,
                                Call("createLabelIfNotExists", labels[labelIdx + 1],
                                     UNDEF, UNDEF, UNDEF, UNDEF, NoSrc))
                        /\ UNCHANGED <<epicIdx, priorityOrder, storyDocs,
                                       storiesWithEpic, storyIdx, cli>>
                   ELSE /\ EnterEpics(m, log)
                        /\ UNCHANGED labelIdx
    /\ UNCHANGED <<projectInfo, repositoryId, epicFiles, storyFiles, epics, labels>>

SetIssueIdOfAll(obj, key, id) ==
    [i \in 1..Len(obj) |-> [obj[i] EXCEPT !.issueId = id]]
\* line 112: epicStory.issueId = issueId
SetIssueId(obj, key, id) ==
    [i \in 1..Len(obj) |-> IF obj[i].key = key THEN [obj[i] EXCEPT !.issueId = id]
                           ELSE obj[i]]

\* lines 98-113: createIssue settles; the next epic is created, or the story
\* phase starts
EpicReturns ==
    /\ pc = "createIssue"
    /\ \/ /\ Throw("tracker", Settle(calls, "failed", UNDEF))
          /\ UNCHANGED <<epics, epicIdx, priorityOrder, storyDocs, storiesWithEpic,
                         storyIdx>>
       \/ LET id == IssueIdFor(calls)
              log == Settle(calls, "ok", id)
              obj == SetIssueId(epics, ObjectValues(epics)[epicIdx].key, id)
          IN  /\ epics' = obj
              /\ IF epicIdx < Len(ObjectValues(epics))
                 THEN /\ EpicIteration(obj, labelsByName, epicIdx + 1, log)
                      /\ UNCHANGED <<priorityOrder, storyDocs, storiesWithEpic, storyIdx>>
                 ELSE /\ EnterStories(obj, labelsByName, log)
                      /\ UNCHANGED epicIdx
    /\ UNCHANGED <<projectInfo, repositoryId, epicFiles, storyFiles, labels,
                   labelsByName, labelIdx>>

\* lines 155-171: createIssueAddToProject settles; the next story is created,
\* or the run is complete
StoryReturns ==
    /\ pc = "createIssueAddToProject"
    /\ \/ /\ Throw("tracker", Settle(calls, "failed", UNDEF))
          /\ UNCHANGED storyIdx
       \/ LET log == Settle(calls, "ok", IssueIdFor(calls))
          IN  /\ error' = ""
              /\ IF storyIdx < Len(storiesWithEpic)
                 THEN /\ storyIdx' = storyIdx + 1
                      /\ pc' = "createIssueAddToProject"
                      /\ calls' = Append(log, StoryCall(storiesWithEpic[storyIdx + 1]))
                      /\ UNCHANGED cli
                 ELSE /\ pc' = "done"
                      /\ calls' = log
                      /\ MainReturns
                      /\ UNCHANGED storyIdx
    /\ UNCHANGED <<projectInfo, repositoryId, epicFiles, storyFiles, epics, labels,
                   labelsByName, labelIdx, epicIdx, priorityOrder, storyDocs,
                   storiesWithEpic>>

Next ==
    \/ Start
    \/ ProjectInfoReturns
    \/ RepositoryIdReturns
    \/ LabelReturns
    \/ EpicReturns
    \/ StoryReturns

Spec == Init /\ [][Next]_vars


\* ----------------------------------------------------------- properties
CallsOf(op) == {i \in 1..Len(calls) : calls[i].op = op}
LabelCalls == CallsOf("createLabelIfNotExists")
EpicCalls == CallsOf("createIssue")
StoryCalls == CallsOf("createIssueAddToProject")
\* the key of the epic a story file names: its first "-" segment
OwnerKey(file) == ToChars(SplitEpicNumber(file))
\* the epic record a story file names, when there is one
Owner(file) == CHOOSE e \in Range(epics) : e.key = OwnerKey(file)
\* position of a story file's id in the manifest, -1 when it is not listed
ManifestIndex(file) == IndexFrom(priorityOrder, StoryIdOf(file), 1)
\* the frontmatter read from a story file
FrontmatterOf(file) ==
    storyDocs[CHOOSE k \in 1..Len(storyDocs) : storyFiles[k] = file].fm
\* label resolution has run to its end
LabelsResolved ==
    \/ pc \in {"createIssue", "createIssueAddToProject", "done"}
    \/ /\ pc = "failed"
       /\ calls # <<>>
       /\ \/ calls[Len(calls)].op \in {"createIssue", "createIssueAddToProject"}
          \/ calls[Len(calls)].op = "createLabelIfNotExists"
                /\ calls[Len(calls)].status = "ok"
                /\ Cardinality(LabelCalls) = Len(labels)

\* C1: every story call carries a non-empty parentIssueId that an earlier
\* successful createIssue call returned for the epic whose id is the first
\* segment of the story's file name.
C1_ParentIsCreatedEpic ==
    \A i \in StoryCalls :
        /\ ~Falsy(calls[i].parentIssueId)
        /\ \E j \in EpicCalls :
            /\ j < i
            /\ calls[j].status = "ok"
            /\ calls[j].result = calls[i].parentIssueId
            /\ calls[j].src = OwnerKey(calls[i].src)

\* C2: every story call of a story that has an owning epic carries the id
\* that label resolution recorded for that epic's label.
C2_LabelIsOwningEpicsLabel ==
    \A i \in StoryCalls :
        HasOwn(epics, OwnerKey(calls[i].src)) =>
            /\ MapHas(labelsByName, Owner(calls[i].src).fm.label)
            /\ calls[i].labelId = MapGet(labelsByName, Owner(calls[i].src).fm.label)

\* C3: no label name is passed to createLabelIfNotExists twice, only labels
\* of epic records and the reserved label are passed, and once label
\* resolution has run to its end the names passed are exactly those.
C3_LabelsResolvedOnce ==
    LET expected == {e.fm.label : e \in Range(epics)} \cup {"Epic"}
        passed == {calls[i].name : i \in LabelCalls}
    IN  /\ \A i, j \in LabelCalls : calls[i].name = calls[j].name => i = j
        /\ passed \subseteq expected
        /\ LabelsResolved => passed = expected
\* two epic records share a label, and the labels are resolved
C3_Witness ==
    /\ LabelsResolved
    /\ \E i, j \in 1..Len(epics) : i # j /\ epics[i].fm.label = epics[j].fm.label

\* C4: every story record has priority 1 + the position of its id in the
\* manifest, and when a story call is issued the calls of all stories whose
\* ids come earlier in the manifest have been issued before it.
C4_CreatedInManifestOrder ==
    /\ \A k \in 1..Len(storiesWithEpic) :
        storiesWithEpic[k].priority = 1 + ManifestIndex(storiesWithEpic[k].file)
    /\ \A q \in StoryCalls : \A k \in 1..Len(storiesWithEpic) :
        ManifestIndex(storiesWithEpic[k].file) < ManifestIndex(calls[q].src) =>
            \E p \in StoryCalls : p < q /\ calls[p].src = storiesWithEpic[k].file
\* both stories are created, the file discovered last first
C4_Witness ==
    /\ Len(storyFiles) = 2
    /\ \E p, q \in StoryCalls :
        p < q /\ calls[p].src = storyFiles[2] /\ calls[q].src = storyFiles[1]

\* C5 as stated: no two story records of a run have the same priority.
C5_NoTwoRecordsTie ==
    \A i, j \in 1..Len(storiesWithEpic) :
        i # j => storiesWithEpic[i].priority # storiesWithEpic[j].priority
\* C5 as amended: story records with different story ids have different
\* priorities (files that share a story id share its priority).
C5_DistinctIdsDistinctPriority ==
    \A i, j \in 1..Len(storiesWithEpic) :
        StoryIdOf(storiesWithEpic[i].file) # StoryIdOf(storiesWithEpic[j].file)
            => storiesWithEpic[i].priority # storiesWithEpic[j].priority
\* two story records with different ids
C5_Witness ==
    \E i, j \in 1..Len(storiesWithEpic) :
        StoryIdOf(storiesWithEpic[i].file) # StoryIdOf(storiesWithEpic[j].file)

\* C6: while a story file's id is missing from the manifest no story record
\* exists, no story call is issued and the run is not complete; once the
\* story files have been read the run has failed.
C6_UnlistedStoryAborts ==
    (\E k \in 1..Len(storyFiles) : ManifestIndex(storyFiles[k]) = -1) =>
        /\ StoryCalls = {}
        /\ storiesWithEpic = <<>>
        /\ pc # "done"
        /\ storyDocs # <<>> => pc = "failed" /\ error # ""
\* the run failed on an unlisted story after an epic was created
C6_Witness ==
    /\ pc = "failed"
    /\ error = "not found in priority order"
    /\ \E j \in EpicCalls : calls[j].status = "ok"
    /\ priorityOrder # <<>>

\* C7: while a story file names an epic that is not among the epic records,
\* no story call is issued and the run is not complete.
C7_UnknownEpicAborts ==
    (\E k \in 1..Len(storyFiles) : ~HasOwn(epics, OwnerKey(storyFiles[k]))) =>
        StoryCalls = {} /\ pc # "done"

\* C8: no createIssue call is issued for an epic whose title is missing.
C8_NoEpicCallWithoutTitle ==
    \A j \in EpicCalls : calls[j].title # UNDEF

\* C9: every story call has a non-empty title, the role/action sentence when
\* the story has a role and the frontmatter title otherwise; a run that read
\* a story with neither a role nor a non-empty title has failed without any
\* story call.
C9_StoryTitlePresent ==
    /\ \A i \in StoryCalls :
        LET fm == FrontmatterOf(calls[i].src)
        IN  /\ calls[i].title \notin {UNDEF, ""}
            /\ calls[i].title =
                IF fm.role \notin {UNDEF, ""}
                THEN "As a " \o fm.role \o ", I want to " \o Tmpl(fm.action)
                ELSE fm.title
    /\ \A k \in 1..Len(storyDocs) :
        (storyDocs[k].fm.role \in {UNDEF, ""} /\ storyDocs[k].fm.title \in {UNDEF, ""})
            => pc = "failed" /\ StoryCalls = {}
\* a run failed on a story with an empty title and no role
C9_Witness ==
    /\ pc = "failed"
    /\ error = "Title not set"
    /\ \E k \in 1..Len(storyDocs) : storyDocs[k].fm.title = ""

\* C10: every epic record is keyed by a run of digits, and while a listed
\* epic or story file does not start with digits and "-" the run has failed.
C10_UnparsableNameAborts ==
    /\ \A i \in 1..Len(epics) : \A c \in Range(epics[i].key) : c \in Digits
    /\ (\E f \in Range(epicFiles) \cup Range(storyFiles) : MatchEpicNumber(f) = UndefSeq)
        => pc = "failed"


PendingCalls == {i \in 1..Len(calls) : calls[i].status = "pending"}
FailedCalls == {i \in 1..Len(calls) : calls[i].status = "failed"}

\* C11: a failed tracker call is the last call of the run: the run has
\* failed, no call is pending (no retry, no further call), every earlier call
\* stays settled, and the issue ids of the epics created before are kept.
C11_FailureEndsRun ==
    /\ \A i \in FailedCalls :
        /\ i = Len(calls)
        /\ pc = "failed"
        /\ \A j \in 1..(i - 1) : calls[j].status = "ok"
    /\ pc = "failed" => PendingCalls = {}
    /\ \A j \in EpicCalls :
        calls[j].status = "ok" =>
            \E e \in Range(epics) : e.key = calls[j].src /\ e.issueId = calls[j].result
\* the createIssue call of the second epic failed: the first epic stays
\* created, the second stays uncreated
C11_Witness ==
    /\ FailedCalls # {}
    /\ calls[Len(calls)].op = "createIssue"
    /\ \E e \in Range(epics) : e.issueId # ""
    /\ \E e \in Range(epics) : e.issueId = ""

\* C12: the process has exited exactly when the run is over; it exits with 1
\* and an error report when the configuration or createIssues raised an
\* error, with 0 and a success report exactly when the pipeline completed;
\* success is never reported after a failed call.
C12_ExitCode ==
    /\ cli.exited <=> pc \in {"done", "failed"}
    /\ pc = "failed" => cli.exitCode = 1 /\ cli.report = "error" /\ error # ""
    /\ pc = "done" => cli.exitCode = 0 /\ cli.report = "success"
    /\ (cli.exited /\ cli.exitCode = 0) => pc = "done"
    /\ cli.report = "success" =>
        /\ error = ""
        /\ \A i \in 1..Len(calls) : calls[i].status = "ok"
\* the run failed on a story call after an epic was created
C12_Witness ==
    /\ cli.exited
    /\ cli.exitCode = 1
    /\ FailedCalls # {}
    /\ calls[Len(calls)].op = "createIssueAddToProject"

PhaseOf(op) ==
    CASE op = "getProjectInfo" -> 0
      [] op = "getRepositoryId" -> 1
      [] op = "createLabelIfNotExists" -> 2
      [] op = "createIssue" -> 3
      [] op = "createIssueAddToProject" -> 4

\* C13: in the order the calls are issued the phases never go back (labels,
\* then epics, then stories), and a call of a later phase is issued only when
\* every call of the earlier phases has completed.
C13_PhasesOrdered ==
    \A i, j \in 1..Len(calls) :
        i < j =>
            /\ PhaseOf(calls[i].op) <= PhaseOf(calls[j].op)
            /\ PhaseOf(calls[i].op) < PhaseOf(calls[j].op) => calls[i].status = "ok"
\* a run with two epics and a story reached its story phase
C13_Witness ==
    /\ Cardinality(EpicCalls) = 2
    /\ StoryCalls # {}

\* C14: at most one tracker call is pending, it is the call issued last, and
\* the process awaits exactly that call.
C14_OneCallInFlight ==
    /\ Cardinality(PendingCalls) <= 1
    /\ \A i \in PendingCalls : i = Len(calls) /\ pc = calls[i].op
    /\ pc \notin {"init", "done", "failed"} => PendingCalls # {}
\* the second story call is pending, the first has returned
C14_Witness ==
    /\ pc = "createIssueAddToProject"
    /\ storyIdx = 2
    /\ Cardinality(PendingCalls) = 1

\* C15: in every step an issueId that is set stays as it is, an issueId
\* becomes set only in the step in which the createIssue call for that epic
\* returns, to the id returned, and the entries of labelsByName stay as they
\* are.
C15_WriteOnceStep ==
    /\ \A i \in 1..Len(epics) :
        epics[i].issueId # "" =>
            Len(epics') = Len(epics) /\ epics'[i] = epics[i]
    /\ \A i \in 1..Len(epics') :
        (epics'[i].issueId # "" /\ (i > Len(epics) \/ epics[i].issueId = "")) =>
            /\ pc = "createIssue"
            /\ calls'[Len(calls)].status = "ok"
            /\ calls'[Len(calls)].src = epics'[i].key
            /\ calls'[Len(calls)].result = epics'[i].issueId
    /\ \A k \in 1..Len(labelsByName) :
        Len(labelsByName') >= k /\ labelsByName'[k] = labelsByName[k]
    /\ \A k, l \in 1..Len(labelsByName') :
        labelsByName'[k].name = labelsByName'[l].name => k = l
C15_WriteOnce == [][C15_WriteOnceStep]_vars
\* both epics of a run are created
C15_Witness ==
    /\ Len(epics) = 2
    /\ \A i \in 1..Len(epics) : epics[i].issueId # ""
    /\ epics[1].issueId # epics[2].issueId

\* the tracker returned no id for the reserved label
ReservedLabelUnresolved ==
    \E i \in LabelCalls :
        calls[i].name = "Epic" /\ calls[i].status = "ok" /\ calls[i].result = UNDEF

\* C16 as stated: when the tracker returns no id for the reserved label the
\* run does not complete and no epic or story issue is created.
C16_UnresolvedEpicLabelAborts ==
    ReservedLabelUnresolved =>
        EpicCalls = {} /\ StoryCalls = {} /\ pc # "done"
\* C16 as amended: when the tracker returns no id for the reserved label and
\* there is at least one epic record, no epic or story issue is created, the
\* run does not complete, and once the labels are resolved it has failed
\* with "Label Epic not found".
C16_UnresolvedEpicLabelAbortsWithEpics ==
    (ReservedLabelUnresolved /\ epics # <<>>) =>
        /\ EpicCalls = {}
        /\ StoryCalls = {}
        /\ pc \in {"createLabelIfNotExists", "failed"}
        /\ LabelsResolved => pc = "failed" /\ error = "Label Epic not found"
\* the guard of the epic loop ended the run
C16_Witness ==
    /\ ReservedLabelUnresolved
    /\ epics # <<>>
    /\ pc = "failed"
    /\ error = "Label Epic not found"

\* the leading digit runs of the epic files
EpicIdentities == {MatchEpicNumber(f) : f \in Range(epicFiles)} \ {UndefSeq}

\* C17: on a complete run there is exactly one createIssue call per leading
\* digit run of the epic files and no other, and exactly one
\* createIssueAddToProject call per story file and no other.
C17_OncePerEpicAndStory ==
    pc = "done" =>
        /\ \A id \in EpicIdentities :
            Cardinality({j \in EpicCalls : calls[j].src = id}) = 1
        /\ Cardinality(EpicCalls) = Cardinality(EpicIdentities)
        /\ \A k \in 1..Len(storyFiles) :
            Cardinality({i \in StoryCalls : calls[i].src = storyFiles[k]}) = 1
        /\ Cardinality(StoryCalls) = Len(storyFiles)

StoryValidationErrors == {"not found in priority order", "Title not set", "TypeError"}

\* C18: when a run has failed on a story validation error, every label has
\* been requested and returned, every epic record has the issue id of its
\* createIssue call, and no story call has been issued.
C18_StoryValidationAfterEpics ==
    (pc = "failed" /\ error \in StoryValidationErrors) =>
        /\ \A k \in 1..Len(labels) :
            \E i \in LabelCalls : calls[i].name = labels[k] /\ calls[i].status = "ok"
        /\ \A e \in Range(epics) :
            /\ e.issueId # ""
            /\ \E j \in EpicCalls :
                calls[j].src = e.key /\ calls[j].status = "ok" /\ calls[j].result = e.issueId
        /\ StoryCalls = {}
\* a story validation error after two epics were created
C18_Witness ==
    /\ pc = "failed"
    /\ error \in StoryValidationErrors
    /\ Len(epics) = 2

\* C19: when getProjectInfo returned no project information, it is the only
\* tracker call of the run and the run has failed.
C19_NoProjectInfoAborts ==
    (calls # <<>> /\ calls[1].status = "ok" /\ calls[1].result = UNDEF) =>
        /\ Len(calls) = 1
        /\ pc = "failed"
        /\ error = "Could not find project information"
\* getProjectInfo returned nothing
C19_Witness ==
    /\ pc = "failed"
    /\ error = "Could not find project information"
    /\ calls[1].op = "getProjectInfo"
    /\ calls[1].status = "ok"

====
